---- MODULE Spec2Model ----
(***************************************************************************)
(* Smart-home record store (src/DB.py): six SQLite tables, the start-up    *)
(* sample data, the create/delete request handlers and the analysis        *)
(* queries, modelled as a state machine over the committed content of      *)
(* smart_home.db.                                                          *)
(*                                                                         *)
(* Conventions                                                             *)
(*   - a timestamp is an integer number of minutes: day * 1440 + h*60 + m  *)
(*     (the seconds and microseconds that datetime.now() contributes are   *)
(*     the same for both ends of an interval and are left out);            *)
(*   - a house area is an integer number of tenths of a square metre;      *)
(*   - device types, device names and event types are English stand-ins    *)
(*     for the Chinese string literals of the source;                      *)
(*   - a device name f"{name}_{house_id}" is the pair <<name, house_id>>.  *)
(***************************************************************************)
EXTENDS Integers, Sequences, FiniteSets, TLC

VARIABLES
    users,            \* table users:           [id, email]
    houses,           \* table houses:          [id, user_id, area]
    devices,          \* table devices:         [id, house_id, name, type]
    device_usage,     \* table device_usage:    [id, device_id, start_time, end_time]
    security_events,  \* table security_events: [id, device_id, event_type]
    feedback,         \* table feedback:        [id, user_id, rating]
    seq,              \* sqlite_sequence: last AUTOINCREMENT id handed out per table
    response          \* outcome of the last operation: [op, status, detail, body]

vars == <<users, houses, devices, device_usage, security_events, feedback, seq, response>>

tables == <<users, houses, devices, device_usage, security_events, feedback, seq>>

-----------------------------------------------------------------------------
(* Bounds of the model *)

\* day_offset ranges over 0 .. SampleDays-1.  The code iterates at least
\* usage_days // 2 >= 7 days for every device, so every such day is visited.
SampleDays == 1

\* number of days in the month that contains the start-up date
DaysInMonth == 30

\* the sample data is inserted only while the users sequence stays below this
MaxUserSeq == 4

\* number of usage rows one run of populate_sample_data draws, per specification
MaxRowsLifecycle == 1
MaxRowsOverlap == 6
MaxRowsFrequency == 3

\* ids a request may name
MaxIdInput == 3

\* number of security events of one type, and of feedback rows of one rating,
\* in the stored files the statistics are run on
MaxEventsPerType == 2
MaxFeedbackPerRating == 1

\* number of devices of the largest stored file the overlap queries are run on
MaxStoreDevices == 6

\* security events drawn for the start-up data of the event statistics
MaxSampleEvents == 2

-----------------------------------------------------------------------------
(* Helpers *)

Min(a, b) == IF a < b THEN a ELSE b

Take(s, n) == SubSeq(s, 1, Min(Len(s), n))

RECURSIVE Flatten(_)
Flatten(ss) == IF ss = <<>> THEN <<>> ELSE Head(ss) \o Flatten(Tail(ss))

Range(s) == {s[i] : i \in 1..Len(s)}

RECURSIVE SubsetsUpTo(_, _)
SubsetsUpTo(S, k) ==
    IF k = 0 THEN {{}}
    ELSE LET smaller == SubsetsUpTo(S, k - 1)
         IN  smaller \cup {T \cup {x} : T \in smaller, x \in S}

\* SUM(f) over the rows of S
RECURSIVE SumOver(_, _)
SumOver(S, f) ==
    IF S = {} THEN 0
    ELSE LET r == CHOOSE x \in S : TRUE
         IN  f[r] + SumOver(S \ {r}, f)

MinutesPerDay == 24 * 60

At(day, h, m) == day * MinutesPerDay + h * 60 + m

\* datetime.day
DayOfMonth(t) == ((t \div MinutesPerDay) % DaysInMonth) + 1

\* CAST(strftime('%H', t) AS INTEGER)
HourOf(t) == (t % MinutesPerDay) \div 60

MinuteOf(t) == t % 60

-----------------------------------------------------------------------------
(* Start-up sample data: the literals of populate_sample_data, cut down to *)
(* the first two users and houses, the first two device categories and the *)
(* first device name of each category.                                     *)

users_sample == << "zhangsan@example.com", "lisi@example.com" >>

houses_sample == << [user |-> 1, area |-> 1205], [user |-> 2, area |-> 893] >>

device_categories ==
    << [type |-> "lighting", names |-> << "living_room_light" >>],
       [type |-> "security", names |-> << "front_door_camera" >>] >>

AllTypes == {"lighting", "security", "environment", "entertainment", "kitchen", "appliance"}

\* which categories, and how many names of each, the house with 0-based index i gets
DeviceAllocation(i) ==
    IF i < 5 THEN [take |-> 4, types |-> AllTypes]
    ELSE IF i < 10 THEN [take |-> 3, types |-> AllTypes]
    ELSE IF i < 15 THEN [take |-> 2, types |-> {"lighting", "security", "environment", "appliance"}]
    ELSE [take |-> 3, types |-> {"lighting", "security", "kitchen"}]

HouseDevices(i) ==
    LET a == DeviceAllocation(i - 1)
    IN  Flatten([c \in 1..Len(device_categories) |->
            IF device_categories[c].type \in a.types
            THEN LET names == Take(device_categories[c].names, a.take)
                 IN  [n \in 1..Len(names) |->
                        [house |-> i, type |-> device_categories[c].type, name |-> names[n]]]
            ELSE <<>>])

\* the devices in insertion order; device_ids[k] = seq.devices + k
SampleDevices == Flatten([i \in 1..Len(houses_sample) |-> HouseDevices(i)])

\* (start_hour, end_hour) per slot and (min, max) duration in minutes
device_usage_patterns ==
    [lighting      |-> [morning |-> <<6, 10>>, afternoon |-> <<12, 18>>, evening |-> <<18, 23>>,
                        night |-> <<23, 6>>, duration |-> <<30, 240>>],
     security      |-> [morning |-> <<6, 10>>, afternoon |-> <<12, 18>>, evening |-> <<18, 23>>,
                        night |-> <<23, 6>>, duration |-> <<480, 720>>],
     environment   |-> [morning |-> <<6, 10>>, afternoon |-> <<12, 18>>, evening |-> <<18, 23>>,
                        night |-> <<23, 6>>, duration |-> <<120, 360>>],
     entertainment |-> [morning |-> <<6, 10>>, afternoon |-> <<12, 18>>, evening |-> <<18, 23>>,
                        night |-> <<23, 6>>, duration |-> <<60, 300>>],
     kitchen       |-> [morning |-> <<6, 10>>, afternoon |-> <<12, 14>>, evening |-> <<18, 20>>,
                        night |-> <<23, 6>>, duration |-> <<30, 120>>],
     appliance     |-> [morning |-> <<6, 10>>, afternoon |-> <<12, 18>>, evening |-> <<18, 23>>,
                        night |-> <<23, 6>>, duration |-> <<60, 240>>]]

SlotNames == << "morning", "afternoon", "evening", "night" >>

SlotIndex(slot) == CHOOSE k \in 1..Len(SlotNames) : SlotNames[k] = slot

event_types == {"door_access_anomaly", "motion_detected", "device_offline", "sensor_fault"}

\* One random outcome of the usage loop: the device (index into
\* SampleDevices), the day, the slot, the part of a slot that crosses
\* midnight (0: the slot does not cross, 1: up to 23:59, 2: from 0:00 of the
\* next day), and the values drawn for start_h, start_m and duration.
Draw(device, day_offset, slot, part, h, m, dur) ==
    [device |-> device, day_offset |-> day_offset, slot |-> slot, part |-> part,
     h |-> h, m |-> m, dur |-> dur]

SlotInfo(d) == device_usage_patterns[SampleDevices[d.device].type][d.slot]

Duration(d) == device_usage_patterns[SampleDevices[d.device].type].duration

\* the draw is one the random calls of the code can return
ValidDraw(d) ==
    /\ d.device \in 1..Len(SampleDevices)
    /\ d.day_offset \in 0..(SampleDays - 1)
    /\ d.slot \in Range(SlotNames)
    /\ LET start_hour == SlotInfo(d)[1]
           end_hour == SlotInfo(d)[2]
       IN  IF start_hour > end_hour
           THEN \/ d.part = 1 /\ d.h \in start_hour..23
                \/ d.part = 2 /\ d.h \in 0..(end_hour - 1)
           ELSE d.part = 0 /\ d.h \in start_hour..(end_hour - 1)
    /\ d.m \in 0..59
    /\ d.dur \in Duration(d)[1]..Duration(d)[2]

\* position of the draw in the nested loops (device, day, slot, part)
DrawKey(d) == ((d.device * SampleDays + d.day_offset) * 4 + SlotIndex(d.slot)) * 3 + d.part

\* the (start_time, end_time) the code computes from one draw
UsageStart(today, d) ==
    IF d.part = 2
    THEN At(today - d.day_offset + 1, d.h, d.m)
    ELSE At(today - d.day_offset, d.h, d.m)

UsageEnd(today, d) ==
    LET start_time == UsageStart(today, d)
        end_time == start_time + d.dur
    IN  CASE d.part = 1 ->
                IF DayOfMonth(end_time) > DayOfMonth(start_time)
                THEN At(today - d.day_offset, 23, 59)
                ELSE end_time
          [] d.part = 2 -> end_time
          [] OTHER ->
                IF DayOfMonth(end_time) # DayOfMonth(start_time)
                THEN start_time + Duration(d)[1]
                ELSE end_time

-----------------------------------------------------------------------------
(* Initial state: the database file created by init_db, all tables empty *)

NoResponse == [op |-> "init_db", status |-> 0, detail |-> "", body |-> <<>>]

EmptySeq == [users |-> 0, houses |-> 0, devices |-> 0, device_usage |-> 0,
             security_events |-> 0, feedback |-> 0]

Init ==
    /\ users = {}
    /\ houses = {}
    /\ devices = {}
    /\ device_usage = {}
    /\ security_events = {}
    /\ feedback = {}
    /\ seq = EmptySeq
    /\ response = NoResponse

-----------------------------------------------------------------------------
(* The connection and the statement runner *)

\* get_db_connection opens the connection and never issues
\* PRAGMA foreign_keys = ON, so SQLite keeps its default: the FOREIGN KEY ...
\* ON DELETE CASCADE clauses of init_db are parsed but not enforced.
foreign_keys == FALSE

\* execute_query: cursor.execute(query); if commit: conn.commit(); then fetch.
\*   - a violated constraint makes cursor.execute raise sqlite3.IntegrityError;
\*   - a statement with a RETURNING clause does its writes in the first step
\*     and stays active until its rows are fetched, and COMMIT is refused
\*     while a writing statement is active ("cannot commit transaction - SQL
\*     statements in progress", sqlite3.OperationalError); execute_query
\*     commits before it fetches;
\*   - every sqlite3.Error is turned into HTTPException(500), and the
\*     connection is closed in the finally clause, which discards whatever
\*     was not committed.
execute_query(constraint_ok, returning, commit) ==
    IF ~constraint_ok THEN "IntegrityError"
    ELSE IF commit /\ returning THEN "OperationalError"
    ELSE "ok"

Respond(op, status, detail, body) ==
    [op |-> op, status |-> status, detail |-> detail, body |-> body]

DatabaseError(op) == Respond(op, 500, "Database operation failed", <<>>)

UserExists(id) == \E u \in users : u.id = id

\* SELECT 1 FROM houses WHERE id = ?
HouseExists_any(id) == houses # {}

HouseExists(id) == \E h \in houses : h.id = id

DeviceExists(id) == \E d \in devices : d.id = id

-----------------------------------------------------------------------------
(* populate_sample_data, run when the module is imported (server start) *)

ValidSampleInput(in) ==
    /\ \A d \in in.usage : ValidDraw(d)
    /\ \A d1, d2 \in in.usage : DrawKey(d1) = DrawKey(d2) => d1 = d2
    /\ \A j \in 1..Len(in.events) :
          /\ in.events[j].device \in 1..Len(SampleDevices)
          /\ in.events[j].event_type \in event_types
    /\ Len(in.ratings) = Len(users_sample)
    /\ \A i \in 1..Len(in.ratings) :
          /\ Len(in.ratings[i]) \in 1..5
          /\ \A k \in 1..Len(in.ratings[i]) : in.ratings[i][k] \in 1..5

\* number of draws made before d in loop order
DrawRank(d, usage) == Cardinality({x \in usage : DrawKey(x) < DrawKey(d)})

RECURSIVE FeedbackBefore(_, _)
FeedbackBefore(ratings, i) ==
    IF i <= 1 THEN 0 ELSE FeedbackBefore(ratings, i - 1) + Len(ratings[i - 1])

populate_sample_data(in) ==
    /\ ValidSampleInput(in)
    /\ IF users # {}
       THEN \* "SELECT COUNT(*) FROM users" > 0: nothing is inserted
            /\ response' = Respond("populate_sample_data", 0, "skipped", <<>>)
            /\ UNCHANGED tables
       ELSE /\ seq.users + Len(users_sample) <= MaxUserSeq
            /\ users' = users \cup
                  {[id |-> seq.users + i, email |-> users_sample[i]] : i \in 1..Len(users_sample)}
            /\ houses' = houses \cup
                  {[id |-> seq.houses + i,
                    user_id |-> seq.users + houses_sample[i].user,
                    area |-> houses_sample[i].area] : i \in 1..Len(houses_sample)}
            /\ devices' = devices \cup
                  {[id |-> seq.devices + k,
                    house_id |-> seq.houses + SampleDevices[k].house,
                    name |-> <<SampleDevices[k].name, seq.houses + SampleDevices[k].house>>,
                    type |-> SampleDevices[k].type] : k \in 1..Len(SampleDevices)}
            /\ device_usage' = device_usage \cup
                  {[id |-> seq.device_usage + DrawRank(d, in.usage) + 1,
                    device_id |-> seq.devices + d.device,
                    start_time |-> UsageStart(in.today, d),
                    end_time |-> UsageEnd(in.today, d)] : d \in in.usage}
            /\ security_events' = security_events \cup
                  {[id |-> seq.security_events + j,
                    device_id |-> seq.devices + in.events[j].device,
                    event_type |-> in.events[j].event_type] : j \in 1..Len(in.events)}
            /\ feedback' = feedback \cup
                  UNION {{[id |-> seq.feedback + FeedbackBefore(in.ratings, i) + k,
                           user_id |-> seq.users + i,
                           rating |-> in.ratings[i][k]] : k \in 1..Len(in.ratings[i])}
                         : i \in 1..Len(in.ratings)}
            /\ seq' = [users |-> seq.users + Len(users_sample),
                       houses |-> seq.houses + Len(houses_sample),
                       devices |-> seq.devices + Len(SampleDevices),
                       device_usage |-> seq.device_usage + Cardinality(in.usage),
                       security_events |-> seq.security_events + Len(in.events),
                       feedback |-> seq.feedback + FeedbackBefore(in.ratings, Len(in.ratings) + 1)]
            /\ response' = Respond("populate_sample_data", 0, "populated", <<>>)

-----------------------------------------------------------------------------
(* Request handlers that write *)

create_user(email) ==
    LET outcome == execute_query(\A u \in users : u.email # email, TRUE, TRUE)
        row == [id |-> seq.users + 1, email |-> email]
    IN  IF outcome = "ok"
        THEN /\ users' = users \cup {row}
             /\ seq' = [seq EXCEPT !.users = @ + 1]
             /\ response' = Respond("create_user", 200, "", <<row>>)
             /\ UNCHANGED <<houses, devices, device_usage, security_events, feedback>>
        ELSE \* execute_query has already replaced the IntegrityError by a 500
             /\ response' = DatabaseError("create_user")
             /\ UNCHANGED tables

delete_user(user_id) ==
    LET outcome == execute_query(TRUE, FALSE, TRUE)
        gone_houses == {h \in houses : h.user_id = user_id}
        gone_devices == {d \in devices : \E h \in gone_houses : d.house_id = h.id}
    IN  /\ outcome = "ok"
        /\ users' = {u \in users : u.id # user_id}
        /\ IF foreign_keys
           THEN /\ houses' = houses \ gone_houses
                /\ devices' = devices \ gone_devices
                /\ device_usage' =
                      {r \in device_usage : \A d \in gone_devices : r.device_id # d.id}
                /\ security_events' =
                      {r \in security_events : \A d \in gone_devices : r.device_id # d.id}
                /\ feedback' = {f \in feedback : f.user_id # user_id}
           ELSE UNCHANGED <<houses, devices, device_usage, security_events, feedback>>
        /\ UNCHANGED seq
        /\ response' = Respond("delete_user", 200, "User deleted successfully", <<>>)

create_house(user_id, area) ==
    IF ~UserExists(user_id)
    THEN /\ response' = Respond("create_house", 404, "User not found", <<>>)
         /\ UNCHANGED tables
    ELSE LET outcome == execute_query(TRUE, TRUE, TRUE)
             row == [id |-> seq.houses + 1, user_id |-> user_id, area |-> area]
         IN  IF outcome = "ok"
             THEN /\ houses' = houses \cup {row}
                  /\ seq' = [seq EXCEPT !.houses = @ + 1]
                  /\ response' = Respond("create_house", 200, "", <<row>>)
                  /\ UNCHANGED <<users, devices, device_usage, security_events, feedback>>
             ELSE /\ response' = DatabaseError("create_house")
                  /\ UNCHANGED tables

create_device(house_id, name, type) ==
    IF ~HouseExists(house_id)
    THEN /\ response' = Respond("create_device", 404, "House not found", <<>>)
         /\ UNCHANGED tables
    ELSE LET outcome == execute_query(TRUE, TRUE, TRUE)
             row == [id |-> seq.devices + 1, house_id |-> house_id, name |-> name, type |-> type]
         IN  IF outcome = "ok"
             THEN /\ devices' = devices \cup {row}
                  /\ seq' = [seq EXCEPT !.devices = @ + 1]
                  /\ response' = Respond("create_device", 200, "", <<row>>)
                  /\ UNCHANGED <<users, houses, device_usage, security_events, feedback>>
             ELSE /\ response' = DatabaseError("create_device")
                  /\ UNCHANGED tables

\* if usage.end_time <= usage.start_time
EndNotAfterStart_strict(start_time, end_time) == end_time < start_time

EndNotAfterStart(start_time, end_time) == end_time <= start_time

create_device_usage(device_id, start_time, end_time) ==
    IF EndNotAfterStart(start_time, end_time)
    THEN /\ response' = Respond("create_device_usage", 400, "End time must be after start time", <<>>)
         /\ UNCHANGED tables
    ELSE IF ~DeviceExists(device_id)
    THEN /\ response' = Respond("create_device_usage", 404, "Device not found", <<>>)
         /\ UNCHANGED tables
    ELSE LET outcome == execute_query(TRUE, TRUE, TRUE)
             row == [id |-> seq.device_usage + 1, device_id |-> device_id,
                     start_time |-> start_time, end_time |-> end_time]
         IN  IF outcome = "ok"
             THEN /\ device_usage' = device_usage \cup {row}
                  /\ seq' = [seq EXCEPT !.device_usage = @ + 1]
                  /\ response' = Respond("create_device_usage", 200, "", <<row>>)
                  /\ UNCHANGED <<users, houses, devices, security_events, feedback>>
             ELSE /\ response' = DatabaseError("create_device_usage")
                  /\ UNCHANGED tables

create_security_event(device_id, event_type) ==
    IF ~DeviceExists(device_id)
    THEN /\ response' = Respond("create_security_event", 404, "Device not found", <<>>)
         /\ UNCHANGED tables
    ELSE LET outcome == execute_query(TRUE, TRUE, TRUE)
             row == [id |-> seq.security_events + 1, device_id |-> device_id,
                     event_type |-> event_type]
         IN  IF outcome = "ok"
             THEN /\ security_events' = security_events \cup {row}
                  /\ seq' = [seq EXCEPT !.security_events = @ + 1]
                  /\ response' = Respond("create_security_event", 200, "", <<row>>)
                  /\ UNCHANGED <<users, houses, devices, device_usage, feedback>>
             ELSE /\ response' = DatabaseError("create_security_event")
                  /\ UNCHANGED tables

\* if feedback.rating < 1 or feedback.rating > 5
RatingOutOfRange_upper_only(rating) == rating > 5

RatingOutOfRange(rating) == rating < 1 \/ rating > 5

create_feedback(user_id, rating) ==
    IF RatingOutOfRange(rating)
    THEN /\ response' = Respond("create_feedback", 400, "Rating must be between 1 and 5", <<>>)
         /\ UNCHANGED tables
    ELSE IF ~UserExists(user_id)
    THEN /\ response' = Respond("create_feedback", 404, "User not found", <<>>)
         /\ UNCHANGED tables
    ELSE LET outcome == execute_query(rating \in 1..5, TRUE, TRUE)
             row == [id |-> seq.feedback + 1, user_id |-> user_id, rating |-> rating]
         IN  IF outcome = "ok"
             THEN /\ feedback' = feedback \cup {row}
                  /\ seq' = [seq EXCEPT !.feedback = @ + 1]
                  /\ response' = Respond("create_feedback", 200, "", <<row>>)
                  /\ UNCHANGED <<users, houses, devices, device_usage, security_events>>
             ELSE /\ response' = DatabaseError("create_feedback")
                  /\ UNCHANGED tables

\* os.remove(db_file); init_db()
reset_database ==
    /\ users' = {}
    /\ houses' = {}
    /\ devices' = {}
    /\ device_usage' = {}
    /\ security_events' = {}
    /\ feedback' = {}
    /\ seq' = EmptySeq
    /\ response' = Respond("reset_database", 200, "Database reset successfully", <<>>)

-----------------------------------------------------------------------------
(* Specification of the store: start-up, the writing handlers, reset *)

\* start-up dates: one in the middle of a month, one on its last day
Todays == {DaysInMonth \div 2, DaysInMonth - 1}

OneRatingEach(r) == [i \in 1..Len(users_sample) |-> <<r>>]

SampleInput(today, usage, events, ratings) ==
    [today |-> today, usage |-> usage, events |-> events, ratings |-> ratings]

LifecycleDraws ==
    { Draw(1, 0, "morning", 0, 6, 0, 30),
      Draw(2, 0, "night", 1, 23, 59, 480),
      Draw(3, 0, "night", 2, 5, 59, 30) }

LifecycleInputs ==
    { SampleInput(today, usage, events, OneRatingEach(5)) :
        today \in Todays,
        usage \in SubsetsUpTo(LifecycleDraws, MaxRowsLifecycle),
        events \in {<<>>, <<[device |-> 2, event_type |-> "motion_detected"]>>} }

EmailInputs == {users_sample[1], "new@example.com"}

IdInputs == 1..MaxIdInput

AreaInputs == {500}

NameInputs == {<<"living_room_light", 1>>}

TimeInputs == {At(10, 10, 0), At(10, 11, 0)}

RatingInputs == {0, 3, 6}

Next ==
    \/ \E in \in LifecycleInputs : populate_sample_data(in)
    \/ \E email \in EmailInputs : create_user(email)
    \/ \E user_id \in IdInputs : delete_user(user_id)
    \/ \E user_id \in IdInputs, area \in AreaInputs : create_house(user_id, area)
    \/ \E house_id \in IdInputs, name \in NameInputs : create_device(house_id, name, "lighting")
    \/ \E device_id \in IdInputs, start_time \in TimeInputs, end_time \in TimeInputs :
          create_device_usage(device_id, start_time, end_time)
    \/ \E device_id \in IdInputs : create_security_event(device_id, "motion_detected")
    \/ \E user_id \in IdInputs, rating \in RatingInputs : create_feedback(user_id, rating)
    \/ reset_database

Spec == Init /\ [][Next]_vars

-----------------------------------------------------------------------------
(* Analysis queries: pure functions of the tables *)

\* HAVING concurrent_count > 2 of get_concurrent_devices
ConcurrentDevicesThreshold == 2

\* HAVING concurrent_count > 5 of get_concurrent_device_usage
ConcurrentUsageThreshold_inclusive == 5 - 1

ConcurrentUsageThreshold == 5

\* LIMIT 10
ResultLimit == 10

\* ORDER BY key DESC: every arrangement of the rows in which the key never
\* increases (SQL leaves the order of rows with equal keys open)
RECURSIVE OrderByDesc_ascending(_, _)
OrderByDesc_ascending(S, key) ==
    IF S = {} THEN {<<>>}
    ELSE LET low == {r \in S : \A x \in S : key[x] >= key[r]}
         IN  UNION {{<<r>> \o t : t \in OrderByDesc_ascending(S \ {r}, key)} : r \in low}

RECURSIVE OrderByDesc(_, _)
OrderByDesc(S, key) ==
    IF S = {} THEN {<<>>}
    ELSE LET top == {r \in S : \A x \in S : key[x] <= key[r]}
         IN  UNION {{<<r>> \o t : t \in OrderByDesc(S \ {r}, key)} : r \in top}

\* ON du1.device_id < du2.device_id
PairOrdered_mirrored(du1, du2) == du1.device_id # du2.device_id

PairOrdered(du1, du2) == du1.device_id < du2.device_id

\* AND du1.start_time <= du2.end_time AND du1.end_time >= du2.start_time
Overlaps_strict(du1, du2) ==
    du1.start_time < du2.end_time /\ du1.end_time > du2.start_time

Overlaps_one_sided(du1, du2) == du1.start_time <= du2.end_time

Overlaps(du1, du2) ==
    du1.start_time <= du2.end_time /\ du1.end_time >= du2.start_time

\* FROM device_usage du1 JOIN device_usage du2 ON ... JOIN devices d1 ... JOIN devices d2 ...
ConcurrentJoin ==
    {j \in [du1 : device_usage, du2 : device_usage, d1 : devices, d2 : devices] :
        /\ PairOrdered(j.du1, j.du2)
        /\ Overlaps(j.du1, j.du2)
        /\ j.du1.device_id = j.d1.id
        /\ j.du2.device_id = j.d2.id}

\* COUNT(*) of one group of joined rows
CountRows_distinct_first(group) == Cardinality({j.du1 : j \in group})

CountRows(group) == Cardinality(group)

\* GROUP BY d1.id, d2.id HAVING concurrent_count > 2
ConcurrentDevicesRows ==
    LET keys == {<<j.d1.id, j.d2.id>> : j \in ConcurrentJoin}
        Group(k) == {j \in ConcurrentJoin : j.d1.id = k[1] /\ j.d2.id = k[2]}
        Row(k) == LET any == CHOOSE j \in Group(k) : TRUE
                  IN  [device1_id |-> k[1], device1_name |-> any.d1.name,
                       device2_id |-> k[2], device2_name |-> any.d2.name,
                       concurrent_count |-> CountRows(Group(k))]
    IN  {r \in {Row(k) : k \in keys} : r.concurrent_count > ConcurrentDevicesThreshold}

\* GROUP BY d1.name, d2.name HAVING concurrent_count > 5
ConcurrentDeviceUsageRows ==
    LET keys == {<<j.d1.name, j.d2.name>> : j \in ConcurrentJoin}
        Group(k) == {j \in ConcurrentJoin : j.d1.name = k[1] /\ j.d2.name = k[2]}
        Row(k) == [device1 |-> k[1], device2 |-> k[2],
                   concurrent_count |-> CountRows(Group(k))]
    IN  {r \in {Row(k) : k \in keys} : r.concurrent_count > ConcurrentUsageThreshold}

\* ORDER BY concurrent_count DESC LIMIT 10
ConcurrentResults_offset(rows) ==
    {SubSeq(s, 2, Min(Len(s), ResultLimit + 1)) :
        s \in OrderByDesc(rows, [r \in rows |-> r.concurrent_count])}

ConcurrentResults(rows) ==
    {Take(s, ResultLimit) : s \in OrderByDesc(rows, [r \in rows |-> r.concurrent_count])}

get_concurrent_devices ==
    /\ \E body \in ConcurrentResults(ConcurrentDevicesRows) :
          response' = Respond("get_concurrent_devices", 200, "", body)
    /\ UNCHANGED tables

get_concurrent_device_usage ==
    /\ \E body \in ConcurrentResults(ConcurrentDeviceUsageRows) :
          response' = Respond("get_concurrent_device_usage", 200, "", body)
    /\ UNCHANGED tables

\* the CASE expression of get_device_usage_frequency; BETWEEN includes both ends
TimeSlot_late_morning(hour) ==
    IF hour > 6 /\ hour <= 12 THEN "Morning (6-12)"
    ELSE IF hour >= 12 /\ hour <= 18 THEN "Afternoon (12-18)"
    ELSE IF hour >= 18 /\ hour <= 24 THEN "Evening (18-24)"
    ELSE "Night (0-6)"

TimeSlot(hour) ==
    IF hour >= 6 /\ hour <= 12 THEN "Morning (6-12)"
    ELSE IF hour >= 12 /\ hour <= 18 THEN "Afternoon (12-18)"
    ELSE IF hour >= 18 /\ hour <= 24 THEN "Evening (18-24)"
    ELSE "Night (0-6)"

\* FROM device_usage du JOIN devices d ON du.device_id = d.id
UsageJoin_row_id == {j \in [du : device_usage, d : devices] : j.du.id = j.d.id}

UsageJoin == {j \in [du : device_usage, d : devices] : j.du.device_id = j.d.id}

\* GROUP BY d.id, time_slot
DeviceUsageFrequencyRows ==
    LET keys == {<<j.d.id, TimeSlot(HourOf(j.du.start_time))>> : j \in UsageJoin}
        Group(k) == {j \in UsageJoin :
                        j.d.id = k[1] /\ TimeSlot(HourOf(j.du.start_time)) = k[2]}
        Row(k) == LET any == CHOOSE j \in Group(k) : TRUE
                  IN  [device_id |-> k[1], device_name |-> any.d.name,
                       frequency |-> CountRows(Group(k)), time_slot |-> k[2]]
    IN  {Row(k) : k \in keys}

\* ORDER BY frequency DESC
get_device_usage_frequency ==
    /\ \E body \in OrderByDesc(DeviceUsageFrequencyRows,
                               [r \in DeviceUsageFrequencyRows |-> r.frequency]) :
          response' = Respond("get_device_usage_frequency", 200, "", body)
    /\ UNCHANGED tables

-----------------------------------------------------------------------------
(* Specification of the overlap queries over the start-up data *)

MidMonth == DaysInMonth \div 2

\* lighting of house 1: 09:00-13:00 or 06:00-06:30, 12:00-16:00, 18:00-22:00
\* security of house 1: 06:00-18:00, 12:00-20:00 (12 h would cross midnight)
\* lighting of house 2: 00:00-00:30 of the next day
\* security of house 2: 22:00-06:00
OverlapDraws ==
    { Draw(1, 0, "morning", 0, 9, 0, 240),
      Draw(1, 0, "morning", 0, 6, 0, 30),
      Draw(1, 0, "afternoon", 0, 12, 0, 240),
      Draw(1, 0, "evening", 0, 18, 0, 240),
      Draw(2, 0, "morning", 0, 6, 0, 720),
      Draw(2, 0, "afternoon", 0, 12, 0, 720),
      Draw(3, 0, "night", 2, 0, 0, 30),
      Draw(4, 0, "evening", 0, 22, 0, 480) }

OverlapInputs ==
    { SampleInput(MidMonth, usage, <<>>, OneRatingEach(5)) :
        usage \in SubsetsUpTo(OverlapDraws, MaxRowsOverlap) }

NextOverlap ==
    \/ \E in \in OverlapInputs : populate_sample_data(in)
    \/ get_concurrent_devices
    \/ get_concurrent_device_usage

SpecOverlap == Init /\ [][NextOverlap]_vars

-----------------------------------------------------------------------------
(* Specification of the time-slot query over the start-up data *)

FrequencyDraws ==
    { Draw(1, 0, "morning", 0, 6, 0, 30),
      Draw(1, 0, "afternoon", 0, 12, 0, 30),
      Draw(1, 0, "afternoon", 0, 17, 59, 30),
      Draw(1, 0, "evening", 0, 18, 0, 30),
      Draw(1, 0, "night", 1, 23, 59, 30),
      Draw(1, 0, "night", 2, 5, 59, 30),
      Draw(2, 0, "morning", 0, 9, 59, 480),
      Draw(2, 0, "night", 2, 0, 0, 480) }

FrequencyInputs ==
    { SampleInput(MidMonth, usage, <<>>, OneRatingEach(5)) :
        usage \in SubsetsUpTo(FrequencyDraws, MaxRowsFrequency) }

NextFrequency ==
    \/ \E in \in FrequencyInputs : populate_sample_data(in)
    \/ get_device_usage_frequency

SpecFrequency == Init /\ [][NextFrequency]_vars

-----------------------------------------------------------------------------
(* Analysis queries over users, houses, events and feedback *)

\* FROM users u JOIN houses h ON u.id = h.user_id JOIN devices d ON h.id = d.house_id
OwnedDevices == {j \in [u : users, h : houses, d : devices] :
                    j.u.id = j.h.user_id /\ j.h.id = j.d.house_id}

\* LEFT JOIN device_usage du ON d.id = du.device_id: the usage rows joined
\* to one row of OwnedDevices; when there is none the row is kept with NULLs
JoinedUsage(j) == {du \in device_usage : du.device_id = j.d.id}

\* GROUP BY u.id; COUNT(du.id) counts the joined rows whose du.id is not
\* NULL; the column user_name is left out with the column users.name
UserActivityRows ==
    LET keys == {j.u.id : j \in OwnedDevices}
        Group(k) == {j \in OwnedDevices : j.u.id = k}
        Row(k) == [user_id |-> k,
                   usage_count |->
                       Cardinality({<<j, du>> \in Group(k) \X device_usage : du \in JoinedUsage(j)}),
                   device_types_used |-> Cardinality({j.d.type : j \in Group(k)})]
    IN  {Row(k) : k \in keys}

\* ORDER BY usage_count DESC
get_user_activity ==
    /\ \E body \in OrderByDesc(UserActivityRows, [r \in UserActivityRows |-> r.usage_count]) :
          response' = Respond("get_user_activity", 200, "", body)
    /\ UNCHANGED tables

\* the device-name literals in the order in which SQLite compares the texts
NameOrder == << "front_door_camera", "living_room_light" >>

\* position of the text f"{name}_{k}" among the device names (k is one digit)
NameRank(name) == (CHOOSE i \in 1..Len(NameOrder) : NameOrder[i] = name[1]) * 10 + name[2]

\* GROUP BY d.name, hour_of_day over device_usage JOIN devices
DeviceUsagePatternRows ==
    LET keys == {<<j.d.name, HourOf(j.du.start_time)>> : j \in UsageJoin}
        Group(k) == {j \in UsageJoin : j.d.name = k[1] /\ HourOf(j.du.start_time) = k[2]}
        Row(k) == [device_name |-> k[1], hour_of_day |-> k[2],
                   usage_count |-> CountRows(Group(k))]
    IN  {Row(k) : k \in keys}

\* ORDER BY hour_of_day, device_name
get_device_usage_pattern ==
    /\ \E body \in OrderByDesc(DeviceUsagePatternRows,
                               [r \in DeviceUsagePatternRows |->
                                   0 - (r.hour_of_day * 100 + NameRank(r.device_name))]) :
          response' = Respond("get_device_usage_pattern", 200, "", body)
    /\ UNCHANGED tables

\* the CASE expression of get_area_usage_impact on an area in tenths of a
\* square metre; the first WHEN that holds decides, BETWEEN includes both ends
AreaRange_low_inclusive(area) ==
    IF area <= 500 THEN "0-50"
    ELSE IF area >= 500 /\ area <= 1000 THEN "50-100"
    ELSE IF area >= 1000 /\ area <= 1500 THEN "100-150"
    ELSE "150+"

AreaRange_reordered(area) ==
    IF area < 500 THEN "0-50"
    ELSE IF area >= 1000 /\ area <= 1500 THEN "100-150"
    ELSE IF area >= 500 /\ area <= 1000 THEN "50-100"
    ELSE "150+"

AreaRange(area) ==
    IF area < 500 THEN "0-50"
    ELSE IF area >= 500 /\ area <= 1000 THEN "50-100"
    ELSE IF area >= 1000 /\ area <= 1500 THEN "100-150"
    ELSE "150+"

\* the area_range texts in the order in which SQLite compares them
AreaRangeOrder == << "0-50", "100-150", "150+", "50-100" >>

AreaRangeRank(range) == CHOOSE i \in 1..Len(AreaRangeOrder) : AreaRangeOrder[i] = range

\* FROM device_usage du JOIN devices d ON ... JOIN houses h ON d.house_id = h.id
AreaJoin == {j \in [du : device_usage, d : devices, h : houses] :
                j.du.device_id = j.d.id /\ j.d.house_id = j.h.id}

\* GROUP BY area_range, device_type; avg_duration is duration_sum / usage_count
\* minutes, up to the floating-point error of JULIANDAY
AreaUsageImpactRows ==
    LET keys == {<<AreaRange(j.h.area), j.d.type>> : j \in AreaJoin}
        Group(k) == {j \in AreaJoin : AreaRange(j.h.area) = k[1] /\ j.d.type = k[2]}
        Row(k) == [area_range |-> k[1], device_type |-> k[2],
                   duration_sum |->
                       SumOver(Group(k), [j \in Group(k) |-> j.du.end_time - j.du.start_time]),
                   usage_count |-> CountRows(Group(k))]
    IN  {Row(k) : k \in keys}

\* ORDER BY area_range, usage_count DESC
get_area_usage_impact ==
    /\ \E body \in OrderByDesc(AreaUsageImpactRows,
                               [r \in AreaUsageImpactRows |->
                                   r.usage_count
                                   - AreaRangeRank(r.area_range) * (Cardinality(device_usage) + 1)]) :
          response' = Respond("get_area_usage_impact", 200, "", body)
    /\ UNCHANGED tables

\* ROUND(count * 100.0 / total, 2), in hundredths of a percent.  SQLite
\* rounds halves away from zero, and a division by zero gives NULL, not an
\* error, which ROUND passes on.
Round2_one_decimal(count, total) ==
    IF total = 0 THEN "NULL" ELSE 10 * ((2000 * count + total) \div (2 * total))

Round2_truncated(count, total) ==
    IF total = 0 THEN "NULL" ELSE (10000 * count) \div total

Round2(count, total) ==
    IF total = 0 THEN "NULL" ELSE (20000 * count + total) \div (2 * total)

\* GROUP BY event_type over security_events; the subquery counts all rows
SecurityEventStatsRows_once ==
    IF response.op = "get_security_event_stats" THEN {}
    ELSE LET keys == {e.event_type : e \in security_events}
             Group(k) == {e \in security_events : e.event_type = k}
         IN  {[event_type |-> k, count |-> CountRows(Group(k)),
               percentage |-> Round2(CountRows(Group(k)), Cardinality(security_events))] :
                 k \in keys}

SecurityEventStatsRows_wrong_total ==
    LET keys == {e.event_type : e \in security_events}
        Group(k) == {e \in security_events : e.event_type = k}
        Row(k) == [event_type |-> k, count |-> CountRows(Group(k)),
                   percentage |-> Round2(CountRows(Group(k)), seq.security_events + 1)]
    IN  {Row(k) : k \in keys}

SecurityEventStatsRows ==
    LET keys == {e.event_type : e \in security_events}
        Group(k) == {e \in security_events : e.event_type = k}
        Row(k) == [event_type |-> k, count |-> CountRows(Group(k)),
                   percentage |-> Round2(CountRows(Group(k)), Cardinality(security_events))]
    IN  {Row(k) : k \in keys}

\* ORDER BY count DESC
get_security_event_stats ==
    /\ \E body \in OrderByDesc(SecurityEventStatsRows,
                               [r \in SecurityEventStatsRows |-> r.count]) :
          response' = Respond("get_security_event_stats", 200, "", body)
    /\ UNCHANGED tables

\* the CASE expression of get_feedback_sentiment
Sentiment_above_four(rating) ==
    IF rating > 4 THEN "Positive"
    ELSE IF rating = 3 THEN "Neutral"
    ELSE "Negative"

Sentiment(rating) ==
    IF rating >= 4 THEN "Positive"
    ELSE IF rating = 3 THEN "Neutral"
    ELSE "Negative"

\* GROUP BY sentiment over feedback; the subquery counts all rows
FeedbackSentimentRows_ungrouped ==
    {[sentiment |-> IF feedback = {} THEN "Negative"
                    ELSE Sentiment((CHOOSE f \in feedback : TRUE).rating),
      count |-> Cardinality(feedback),
      percentage |-> Round2(Cardinality(feedback), Cardinality(feedback))]}

FeedbackSentimentRows ==
    LET keys == {Sentiment(f.rating) : f \in feedback}
        Group(k) == {f \in feedback : Sentiment(f.rating) = k}
        Row(k) == [sentiment |-> k, count |-> CountRows(Group(k)),
                   percentage |-> Round2(CountRows(Group(k)), Cardinality(feedback))]
    IN  {Row(k) : k \in keys}

\* ORDER BY count DESC
get_feedback_sentiment ==
    /\ \E body \in OrderByDesc(FeedbackSentimentRows,
                               [r \in FeedbackSentimentRows |-> r.count]) :
          response' = Respond("get_feedback_sentiment", 200, "", body)
    /\ UNCHANGED tables

\* FROM devices d LEFT JOIN security_events se ON d.id = se.device_id: the
\* devices that have joined rows; a device without events keeps one row
\* whose se columns are NULL
FailureJoinDevices_inner == {d \in devices : \E se \in security_events : se.device_id = d.id}

FailureJoinDevices == devices

\* COUNT(DISTINCT d.id) of one group of devices with their joined events
TotalDevices_joined_rows(group, events) ==
    Cardinality(events) + Cardinality({d \in group : \A se \in events : se.device_id # d.id})

TotalDevices(group, events) == Cardinality(group)

\* GROUP BY d.type; COUNT(se.id) counts the joined rows whose se.id is not NULL
DeviceFailureRateRows ==
    LET keys == {d.type : d \in FailureJoinDevices}
        Group(k) == {d \in FailureJoinDevices : d.type = k}
        Events(k) == {se \in security_events : \E d \in Group(k) : se.device_id = d.id}
        Row(k) == [device_type |-> k,
                   total_devices |-> TotalDevices(Group(k), Events(k)),
                   failure_events |-> Cardinality(Events(k)),
                   failure_rate_percent |->
                       Round2(Cardinality(Events(k)), TotalDevices(Group(k), Events(k)))]
    IN  {Row(k) : k \in keys}

\* ORDER BY failure_rate_percent DESC
get_device_failure_rate ==
    /\ \E body \in OrderByDesc(DeviceFailureRateRows,
                               [r \in DeviceFailureRateRows |-> r.failure_rate_percent]) :
          response' = Respond("get_device_failure_rate", 200, "", body)
    /\ UNCHANGED tables

\* ROUND(minutes / (60 * rows), 2): hours in hundredths, halves away from zero
HoursRounded(minutes, rows) == (200 * minutes + 60 * rows) \div (120 * rows)

\* GROUP BY d.type over device_usage JOIN devices; JULIANDAY differences are
\* days, times 24 hours
EnergyConsumptionRows ==
    LET keys == {j.d.type : j \in UsageJoin}
        Group(k) == {j \in UsageJoin : j.d.type = k}
        Minutes(k) == SumOver(Group(k), [j \in Group(k) |-> j.du.end_time - j.du.start_time])
        Row(k) == [device_type |-> k,
                   total_hours |-> HoursRounded(Minutes(k), 1),
                   usage_count |-> CountRows(Group(k)),
                   avg_hours |-> HoursRounded(Minutes(k), CountRows(Group(k)))]
    IN  {Row(k) : k \in keys}

\* ORDER BY total_hours DESC
get_energy_consumption ==
    /\ \E body \in OrderByDesc(EnergyConsumptionRows,
                               [r \in EnergyConsumptionRows |-> r.total_hours]) :
          response' = Respond("get_energy_consumption", 200, "", body)
    /\ UNCHANGED tables

-----------------------------------------------------------------------------
(* Specification of the analysis queries over a database file found at      *)
(* start-up.  init_db opens smart_home.db with CREATE TABLE IF NOT EXISTS   *)
(* and populate_sample_data returns at once when the users table has rows,  *)
(* so the server answers the queries over whichever rows the file holds:    *)
(* any rows that the NOT NULL, UNIQUE and CHECK constraints of init_db      *)
(* admit.  The queries are pure functions of these rows.                    *)

\* rows as AUTOINCREMENT numbers them: the i-th inserted row has id i
UserRows(emails) == {[id |-> i, email |-> emails[i]] : i \in 1..Len(emails)}

HouseRows(hs) == {[id |-> i, user_id |-> hs[i][1], area |-> hs[i][2]] : i \in 1..Len(hs)}

DeviceRows(ds) ==
    {[id |-> i, house_id |-> ds[i][1], name |-> ds[i][2], type |-> ds[i][3]] : i \in 1..Len(ds)}

UsageRows(us) ==
    {[id |-> i, device_id |-> us[i][1], start_time |-> us[i][2], end_time |-> us[i][3]] :
        i \in 1..Len(us)}

EventRows(es) == {[id |-> i, device_id |-> es[i][1], event_type |-> es[i][2]] : i \in 1..Len(es)}

FeedbackRows(fs) == {[id |-> i, user_id |-> fs[i][1], rating |-> fs[i][2]] : i \in 1..Len(fs)}

Store(us, hs, ds, du, se, fb) ==
    [users |-> UserRows(us), houses |-> HouseRows(hs), devices |-> DeviceRows(ds),
     device_usage |-> UsageRows(du), security_events |-> EventRows(se),
     feedback |-> FeedbackRows(fb),
     seq |-> [users |-> Len(us), houses |-> Len(hs), devices |-> Len(ds),
              device_usage |-> Len(du), security_events |-> Len(se), feedback |-> Len(fb)]]

\* the two sample users, each with the sample house
BaseUsers == users_sample

BaseHouses == [i \in 1..Len(houses_sample) |-> <<houses_sample[i].user, houses_sample[i].area>>]

BaseDevices ==
    [k \in 1..Len(SampleDevices) |->
        <<SampleDevices[k].house, <<SampleDevices[k].name, SampleDevices[k].house>>,
          SampleDevices[k].type>>]

\* n devices, the k-th used k times between 10:00 and 12:00 of one day, so
\* that devices a and b overlap a * b times
RECURSIVE BusyUsage(_)
BusyUsage(n) ==
    IF n = 0 THEN <<>>
    ELSE BusyUsage(n - 1) \o [i \in 1..n |-> <<n, At(MidMonth, 10, i), At(MidMonth, 12, 0)>>]

BusyStore(n) ==
    Store(BaseUsers, BaseHouses,
          [k \in 1..n |-> <<((k - 1) % Len(BaseHouses)) + 1, <<"living_room_light", k>>, "lighting">>],
          BusyUsage(n), <<>>, <<>>)

BusyStores == {BusyStore(n) : n \in 2..MaxStoreDevices}

\* one usage row per sample device
BaseUsage == [k \in 1..Len(BaseDevices) |-> <<k, At(MidMonth, 8 + k, 0), At(MidMonth, 8 + k, 30)>>]

\* the sample users with any part of their houses, devices and usage rows,
\* every stored row having its parent row
OwnershipStores ==
    {[Store(BaseUsers, BaseHouses, BaseDevices, BaseUsage, <<>>, <<>>)
        EXCEPT !.houses = H, !.devices = D, !.device_usage = U] :
        H \in SUBSET HouseRows(BaseHouses),
        D \in SUBSET DeviceRows(BaseDevices),
        U \in SUBSET UsageRows(BaseUsage)}

WellFormed(st) ==
    /\ \A d \in st.devices : \E h \in st.houses : h.id = d.house_id
    /\ \A r \in st.device_usage : \E d \in st.devices : d.id = r.device_id

\* two lighting devices, one per house, whose names are the same text or
\* two texts, with any part of four usage rows starting at 09:00, 09:30
\* (first device) and 09:10, 10:00 (second device)
NameChoices == {<<"living_room_light", 1>>, <<"living_room_light", 2>>}

NamedUsage ==
    << <<1, At(MidMonth, 9, 0), At(MidMonth, 9, 30)>>,
       <<1, At(MidMonth, 9, 30), At(MidMonth, 10, 30)>>,
       <<2, At(MidMonth, 9, 10), At(MidMonth, 9, 40)>>,
       <<2, At(MidMonth, 10, 0), At(MidMonth, 10, 30)>> >>

NameStores ==
    {[Store(BaseUsers, BaseHouses, << <<1, n1, "lighting">>, <<2, n2, "lighting">> >>,
            NamedUsage, <<>>, <<>>) EXCEPT !.device_usage = U] :
        n1 \in NameChoices, n2 \in NameChoices, U \in SUBSET UsageRows(NamedUsage)}

\* three lighting devices used as in BusyUsage, so that devices a and b
\* overlap a * b times, with names that are the same text or two texts
TwinStores ==
    {Store(BaseUsers, BaseHouses,
           [k \in 1..3 |-> <<((k - 1) % Len(BaseHouses)) + 1, names[k], "lighting">>],
           BusyUsage(3), <<>>, <<>>) :
        names \in [1..3 -> NameChoices]}

\* the sample houses with areas around the limits of the area ranges, and
\* any part of the usage rows of their devices
AreaChoices == {499, 500, 1000, 1500, 1501}

AreaStores ==
    {[Store(BaseUsers, << <<1, a1>>, <<2, a2>> >>, BaseDevices, BaseUsage, <<>>, <<>>)
        EXCEPT !.device_usage = U] :
        a1 \in AreaChoices, a2 \in AreaChoices, U \in SUBSET UsageRows(BaseUsage)}

\* the sample devices with up to MaxEventsPerType security events of every
\* type, spread over the devices
EventTypeOrder == << "door_access_anomaly", "motion_detected", "device_offline", "sensor_fault" >>

EventsOf(f) ==
    Flatten([t \in 1..Len(EventTypeOrder) |->
                [i \in 1..f[EventTypeOrder[t]] |->
                    <<((t + i) % Len(BaseDevices)) + 1, EventTypeOrder[t]>>]])

EventStores ==
    {Store(BaseUsers, BaseHouses, BaseDevices, <<>>, EventsOf(f), <<>>) :
        f \in [event_types -> 0..MaxEventsPerType]}

\* the sample users with up to MaxFeedbackPerRating feedback rows of every
\* rating the CHECK constraint admits
FeedbackOf(g) ==
    Flatten([r \in 1..5 |-> [i \in 1..g[r] |-> <<((r + i) % Len(BaseUsers)) + 1, r>>]])

FeedbackStores ==
    {Store(BaseUsers, BaseHouses, BaseDevices, <<>>, <<>>, FeedbackOf(g)) :
        g \in [1..5 -> 0..MaxFeedbackPerRating]}

\* the file init_db creates: all tables empty (also the file after a reset)
EmptyStore == Store(<<>>, <<>>, <<>>, <<>>, <<>>, <<>>)

StoreInputs ==
    BusyStores \cup {st \in OwnershipStores : WellFormed(st)} \cup NameStores \cup AreaStores
        \cup EventStores \cup FeedbackStores \cup TwinStores \cup {EmptyStore}

InitStore ==
    \E st \in StoreInputs :
        /\ users = st.users
        /\ houses = st.houses
        /\ devices = st.devices
        /\ device_usage = st.device_usage
        /\ security_events = st.security_events
        /\ feedback = st.feedback
        /\ seq = st.seq
        /\ response = NoResponse

NextStore ==
    \/ get_concurrent_devices
    \/ get_concurrent_device_usage
    \/ get_user_activity
    \/ get_device_usage_pattern
    \/ get_area_usage_impact
    \/ get_security_event_stats
    \/ get_feedback_sentiment
    \/ get_device_failure_rate
    \/ get_device_usage_frequency
    \/ get_energy_consumption

SpecStore == InitStore /\ [][NextStore]_vars

-----------------------------------------------------------------------------
(* Specification of the event statistics among the writers of security_events *)

\* the start-up loop may draw any number of events; the model draws up to
\* MaxSampleEvents of them
EventDraws ==
    {[device |-> d, event_type |-> t] : d \in 1..3, t \in {"motion_detected", "sensor_fault"}}

EventInputs ==
    { SampleInput(MidMonth, {}, events, OneRatingEach(5)) :
        events \in UNION {[1..k -> EventDraws] : k \in 0..MaxSampleEvents} }

NextEvents ==
    \/ \E in \in EventInputs : populate_sample_data(in)
    \/ \E device_id \in IdInputs, event_type \in {"motion_detected", "sensor_fault"} :
          create_security_event(device_id, event_type)
    \/ get_security_event_stats
    \/ reset_database

SpecEvents == Init /\ [][NextEvents]_vars

-----------------------------------------------------------------------------
(* Properties *)

Body == response.body

\* the closed-interval test of the specification, on two usage rows
ClosedOverlap(ia, ib) == ia.start_time <= ib.end_time /\ ia.end_time >= ib.start_time

\* some interval of device a overlaps some interval of device b
HaveOverlap(a, b) ==
    \E ia, ib \in device_usage :
        ia.device_id = a /\ ib.device_id = b /\ ClosedOverlap(ia, ib)

\* C1: every row returned by get_concurrent_devices carries as
\* concurrent_count the number of pairs (ia, ib), ia a usage row of device1
\* and ib a usage row of device2, with ia.start <= ib.end and
\* ia.end >= ib.start; rows of one device that overlap each other are each
\* counted.
ConcurrentCountExact ==
    response.op = "get_concurrent_devices" =>
        \A i \in DOMAIN Body :
            Body[i].concurrent_count =
                Cardinality({p \in device_usage \X device_usage :
                                /\ p[1].device_id = Body[i].device1_id
                                /\ p[2].device_id = Body[i].device2_id
                                /\ ClosedOverlap(p[1], p[2])})

\* a returned pair whose second device has two intervals that overlap each
\* other and both overlap one interval of the first device
ConcurrentCountWitness ==
    /\ response.op = "get_concurrent_devices"
    /\ \E i \in DOMAIN Body : \E a, b, c \in device_usage :
          /\ a.id # b.id
          /\ a.device_id = Body[i].device2_id
          /\ b.device_id = Body[i].device2_id
          /\ c.device_id = Body[i].device1_id
          /\ ClosedOverlap(a, b)
          /\ ClosedOverlap(c, a)
          /\ ClosedOverlap(c, b)

\* C2: no row returned by get_concurrent_devices has device1_id >= device2_id,
\* and no row is the mirror of another row.
CanonicalPairs ==
    response.op = "get_concurrent_devices" =>
        /\ \A i \in DOMAIN Body : Body[i].device1_id < Body[i].device2_id
        /\ \A i, k \in DOMAIN Body :
              ~(Body[i].device1_id = Body[k].device2_id /\ Body[i].device2_id = Body[k].device1_id)

CanonicalPairsWitness ==
    /\ response.op = "get_concurrent_devices"
    /\ Len(Body) > 0
    /\ \E i \in DOMAIN Body : HaveOverlap(Body[i].device2_id, Body[i].device1_id)

\* C3: two usage rows of different devices that only touch at an endpoint
\* contribute exactly one joined row to the overlap query.
Touching(du1, du2) == du1.end_time = du2.start_time \/ du2.end_time = du1.start_time

TouchingCounted ==
    \A du1, du2 \in device_usage :
        (du1.device_id < du2.device_id /\ Touching(du1, du2)) =>
            Cardinality({j \in ConcurrentJoin : j.du1 = du1 /\ j.du2 = du2}) = 1

\* a pair is returned with count 3, one of the three being a touching pair
TouchingWitness ==
    /\ response.op = "get_concurrent_devices"
    /\ \E i \in DOMAIN Body : \E du1, du2 \in device_usage :
          /\ Body[i].concurrent_count = 3
          /\ du1.device_id = Body[i].device1_id
          /\ du2.device_id = Body[i].device2_id
          /\ du2.end_time = du1.start_time

ForeignKeyIntegrity ==
    /\ \A h \in houses : UserExists(h.user_id)
    /\ \A d \in devices : HouseExists(d.house_id)
    /\ \A r \in device_usage : DeviceExists(r.device_id)
    /\ \A e \in security_events : DeviceExists(e.device_id)
    /\ \A f \in feedback : UserExists(f.user_id)

\* C6: a delete_user(u) step leaves no house of u, no device of such a house
\* and no usage row or security event of such a device.
DeleteUserCascades ==
    [][\A u \in IdInputs :
          delete_user(u) =>
              LET gone_houses == {h \in houses : h.user_id = u}
                  gone_devices == {d \in devices : \E h \in gone_houses : d.house_id = h.id}
              IN  /\ houses' \cap gone_houses = {}
                  /\ devices' \cap gone_devices = {}
                  /\ \A r \in device_usage' : \A d \in gone_devices : r.device_id # d.id
                  /\ \A e \in security_events' : \A d \in gone_devices : e.device_id # d.id]_vars

\* C7: every row of device_usage has start_time strictly before end_time.
IntervalsValid ==
    \A r \in device_usage : r.start_time < r.end_time

\* C8: a create_device_usage step with end_time <= start_time answers 400
\* and leaves device_usage as it was, for existing and missing devices alike.
RejectsNonPositiveInterval ==
    [][\A device_id \in IdInputs, start_time \in TimeInputs, end_time \in TimeInputs :
          (end_time <= start_time /\ create_device_usage(device_id, start_time, end_time)) =>
              /\ response'.op = "create_device_usage"
              /\ response'.status = 400
              /\ device_usage' = device_usage]_vars

\* the request was rejected while devices and usage rows are stored
RejectsNonPositiveIntervalWitness ==
    /\ response.op = "create_device_usage"
    /\ response.status = 400
    /\ devices # {}
    /\ device_usage # {}

\* C9: get_device_usage_frequency counts, per device, the intervals whose
\* start hour h satisfies 6 <= h < 12 as Morning, 12 <= h < 18 as Afternoon,
\* 18 <= h < 24 as Evening and 0 <= h < 6 as Night.
HalfOpenSlot(hour) ==
    IF 6 <= hour /\ hour < 12 THEN "Morning (6-12)"
    ELSE IF 12 <= hour /\ hour < 18 THEN "Afternoon (12-18)"
    ELSE IF 18 <= hour /\ hour < 24 THEN "Evening (18-24)"
    ELSE "Night (0-6)"

HalfOpenTimeSlots ==
    response.op = "get_device_usage_frequency" =>
        \A i \in DOMAIN Body :
            Body[i].frequency =
                Cardinality({du \in device_usage :
                                /\ du.device_id = Body[i].device_id
                                /\ HalfOpenSlot(HourOf(du.start_time)) = Body[i].time_slot})

\* C10: an interval starting at 05:59 is counted in the Night row of its
\* device, one starting at 06:00 in the Morning row, one starting at 23:59 in
\* the Evening row.
StartingAt(device_id, h, m) ==
    {du \in device_usage :
        du.device_id = device_id /\ HourOf(du.start_time) = h /\ MinuteOf(du.start_time) = m}

CountedIn(device_id, intervals, slot) ==
    intervals # {} =>
        \E i \in DOMAIN Body :
            /\ Body[i].device_id = device_id
            /\ Body[i].time_slot = slot
            /\ Body[i].frequency >= Cardinality(intervals)

BoundaryMinutes ==
    response.op = "get_device_usage_frequency" =>
        \A d \in devices :
            /\ CountedIn(d.id, StartingAt(d.id, 5, 59), "Night (0-6)")
            /\ CountedIn(d.id, StartingAt(d.id, 6, 0), "Morning (6-12)")
            /\ CountedIn(d.id, StartingAt(d.id, 23, 59), "Evening (18-24)")

BoundaryMinutesWitness ==
    /\ response.op = "get_device_usage_frequency"
    /\ \E d \in devices :
          /\ StartingAt(d.id, 5, 59) # {}
          /\ StartingAt(d.id, 6, 0) # {}
          /\ StartingAt(d.id, 23, 59) # {}

\* the number of (ia, ib) pairs, ia a usage row of device a and ib one of
\* device b, that pass the closed-interval test
PairCount(a, b) ==
    Cardinality({p \in device_usage \X device_usage :
                    /\ p[1].device_id = a
                    /\ p[2].device_id = b
                    /\ ClosedOverlap(p[1], p[2])})

\* C11: get_concurrent_devices returns no pair of devices whose overlap
\* count is 2 or less, and get_concurrent_device_usage returns no pair whose
\* overlap count is 5 or less; a count exactly at the threshold is left out.
ThresholdsStrict ==
    \A A, B \in devices :
        A.id < B.id =>
            /\ (response.op = "get_concurrent_devices" /\ PairCount(A.id, B.id) <= 2) =>
                  \A i \in DOMAIN Body :
                      ~(Body[i].device1_id = A.id /\ Body[i].device2_id = B.id)
            /\ (response.op = "get_concurrent_device_usage" /\ PairCount(A.id, B.id) <= 5) =>
                  \A i \in DOMAIN Body :
                      ~(Body[i].device1 = A.name /\ Body[i].device2 = B.name)

\* get_concurrent_device_usage answered while a pair overlaps exactly 5 times
ThresholdsStrictWitness ==
    /\ response.op = "get_concurrent_device_usage"
    /\ \E A, B \in devices : A.id < B.id /\ PairCount(A.id, B.id) = 5

\* the device pairs that qualify for get_concurrent_devices
Qualifying ==
    {p \in {<<A.id, B.id>> : A, B \in devices} :
        p[1] < p[2] /\ PairCount(p[1], p[2]) > 2}

Returned(p) == \E i \in DOMAIN Body : Body[i].device1_id = p[1] /\ Body[i].device2_id = p[2]

\* C12: the result of get_concurrent_devices has at most 10 rows, has every
\* qualifying pair when 10 or fewer pairs qualify, and every qualifying pair
\* it leaves out overlaps no more often than any pair it returns.
TopTen ==
    response.op = "get_concurrent_devices" =>
        /\ Len(Body) <= 10
        /\ \A i \in DOMAIN Body : <<Body[i].device1_id, Body[i].device2_id>> \in Qualifying
        /\ Cardinality(Qualifying) <= 10 => \A p \in Qualifying : Returned(p)
        /\ \A p \in Qualifying :
              ~Returned(p) =>
                  \A i \in DOMAIN Body : PairCount(p[1], p[2]) <= Body[i].concurrent_count

\* more than 10 pairs qualify, and a pair left out ties with a returned one
TopTenWitness ==
    /\ response.op = "get_concurrent_devices"
    /\ Cardinality(Qualifying) > 10
    /\ Len(Body) = 10
    /\ \E p \in Qualifying :
          /\ ~Returned(p)
          /\ \E i \in DOMAIN Body : PairCount(p[1], p[2]) = Body[i].concurrent_count

\* C13: in the results of get_concurrent_devices and of
\* get_concurrent_device_usage the concurrent_count never increases from
\* one row to the next.
NonIncreasingCounts ==
    response.op \in {"get_concurrent_devices", "get_concurrent_device_usage"} =>
        \A i \in DOMAIN Body :
            i + 1 \in DOMAIN Body => Body[i].concurrent_count >= Body[i + 1].concurrent_count

\* a result with a strict descent and with a tie
NonIncreasingCountsWitness ==
    /\ response.op = "get_concurrent_device_usage"
    /\ \E i, k \in DOMAIN Body :
          /\ i + 1 \in DOMAIN Body /\ Body[i].concurrent_count > Body[i + 1].concurrent_count
          /\ k + 1 \in DOMAIN Body /\ Body[k].concurrent_count = Body[k + 1].concurrent_count

\* the usage rows of the devices of the houses of user u
UsageOfUser(u) ==
    {du \in device_usage :
        \E h \in houses, d \in devices :
            h.user_id = u /\ d.house_id = h.id /\ du.device_id = d.id}

\* C14: the result of get_user_activity has exactly one row for every stored
\* user, and the row of a user without houses, without devices or without
\* usage rows has usage_count 0.
EveryUserListed ==
    response.op = "get_user_activity" =>
        \A u \in users :
            /\ Cardinality({i \in DOMAIN Body : Body[i].user_id = u.id}) = 1
            /\ UsageOfUser(u.id) = {} =>
                  \E i \in DOMAIN Body : Body[i].user_id = u.id /\ Body[i].usage_count = 0

\* the usage rows of device d that start in hour h
StartingInHour(d, h) ==
    {du \in device_usage : du.device_id = d /\ HourOf(du.start_time) = h}

\* C15: every row returned by get_device_usage_pattern carries the number
\* of usage rows of one single device that start in the row's hour, an hour
\* of 0..23: no row adds up the usage rows of two devices.
PatternPerDevice ==
    response.op = "get_device_usage_pattern" =>
        \A i \in DOMAIN Body :
            /\ Body[i].hour_of_day \in 0..23
            /\ \E d \in devices :
                  /\ d.name = Body[i].device_name
                  /\ Body[i].usage_count =
                        Cardinality(StartingInHour(d.id, Body[i].hour_of_day))

\* the four area ranges as disjoint sets of areas (tenths of a square metre)
InRange(area, range) ==
    CASE range = "0-50" -> area < 500
      [] range = "50-100" -> 500 <= area /\ area <= 1000
      [] range = "100-150" -> 1000 < area /\ area <= 1500
      [] OTHER -> 1500 < area

\* the usage rows of devices of the given type in houses the predicate holds of
UsageIn(type, AreaOk(_)) ==
    {du \in device_usage :
        \E d \in devices, h \in houses :
            /\ du.device_id = d.id /\ d.house_id = h.id
            /\ d.type = type /\ AreaOk(h.area)}

\* C16: get_area_usage_impact counts every usage row in exactly one row of
\* the result, the one of its device's type and of the first range that
\* matches the area of the device's house in the order 0-50, 50-100,
\* 100-150, 150+; usage_count is the number of usage rows so attributed.
FirstMatchingRange ==
    response.op = "get_area_usage_impact" =>
        /\ \A i \in DOMAIN Body :
              LET Here(area) == InRange(area, Body[i].area_range)
              IN  Body[i].usage_count = Cardinality(UsageIn(Body[i].device_type, Here))
        /\ \A du \in device_usage, d \in devices, h \in houses :
              (du.device_id = d.id /\ d.house_id = h.id) =>
                  Cardinality({i \in DOMAIN Body :
                                  /\ Body[i].device_type = d.type
                                  /\ InRange(h.area, Body[i].area_range)}) = 1

\* usage rows of one device type in a house of 100 square metres and in a
\* house of more than 150 are reported in two rows
FirstMatchingRangeWitness ==
    /\ response.op = "get_area_usage_impact"
    /\ \E i, k \in DOMAIN Body :
          /\ Body[i].device_type = Body[k].device_type
          /\ Body[i].area_range = "50-100"
          /\ Body[k].area_range = "150+"
          /\ \E h \in houses : h.area = 1000

\* C17: usage rows of a house of exactly 50 square metres are counted under
\* '50-100' and never under '0-50'; those of a house of exactly 150 square
\* metres under '100-150' and never under '150+'.
AreaLimits ==
    response.op = "get_area_usage_impact" =>
        \A type \in AllTypes :
            LET Is50(area) == area = 500
                Is150(area) == area = 1500
                Below50(area) == area < 500
                Above150(area) == area > 1500
                CountOf(range) ==
                    SumOver({i \in DOMAIN Body :
                                Body[i].device_type = type /\ Body[i].area_range = range},
                            [i \in DOMAIN Body |-> Body[i].usage_count])
            IN  /\ CountOf("50-100") >= Cardinality(UsageIn(type, Is50))
                /\ CountOf("100-150") >= Cardinality(UsageIn(type, Is150))
                /\ CountOf("0-50") = Cardinality(UsageIn(type, Below50))
                /\ CountOf("150+") = Cardinality(UsageIn(type, Above150))

\* both limits occur with usage rows
AreaLimitsWitness ==
    /\ response.op = "get_area_usage_impact"
    /\ \E du1, du2 \in device_usage, d1, d2 \in devices, h1, h2 \in houses :
          /\ du1.device_id = d1.id /\ d1.house_id = h1.id /\ h1.area = 500
          /\ du2.device_id = d2.id /\ d2.house_id = h2.id /\ h2.area = 1500

\* the sum of the percentage column, in hundredths of a percent
PercentageSum == SumOver(DOMAIN Body, [i \in DOMAIN Body |-> Body[i].percentage])

\* C18: the percentages returned by get_security_event_stats, and those
\* returned by get_feedback_sentiment, add up to 100 within 0.01 times the
\* number of returned rows whenever the table queried has rows.
PercentagesSumTo100 ==
    \/ response.op = "get_security_event_stats" /\ security_events # {}
    \/ response.op = "get_feedback_sentiment" /\ feedback # {}
    => /\ PercentageSum - 10000 <= Len(Body)
       /\ 10000 - PercentageSum <= Len(Body)

\* three event types whose rounded percentages do not add up to 100.00
PercentagesSumTo100Witness ==
    /\ response.op = "get_security_event_stats"
    /\ Len(Body) = 3
    /\ PercentageSum # 10000

\* C19: get_security_event_stats returns exactly one row per event type
\* that occurs, whose count is the number of security events of that type
\* and whose percentage is the multiple of 0.01 nearest to
\* 100 * count / (number of security events).
EventStatsExact ==
    response.op = "get_security_event_stats" =>
        /\ \A e \in security_events :
              Cardinality({i \in DOMAIN Body : Body[i].event_type = e.event_type}) = 1
        /\ \A i \in DOMAIN Body :
              LET n == Cardinality({e \in security_events : e.event_type = Body[i].event_type})
                  total == Cardinality(security_events)
                  off == Body[i].percentage * total - 10000 * n
              IN  /\ n > 0
                  /\ Body[i].count = n
                  /\ 2 * off <= total
                  /\ 0 - 2 * off <= total

\* a percentage that was rounded up and one that was rounded down
EventStatsExactWitness ==
    /\ response.op = "get_security_event_stats"
    /\ \E i, k \in DOMAIN Body :
          /\ Body[i].percentage * Cardinality(security_events) > 10000 * Body[i].count
          /\ Body[k].percentage * Cardinality(security_events) < 10000 * Body[k].count

\* C20: with no security event stored, get_security_event_stats answers the
\* empty list and get_device_failure_rate answers one row per device type
\* that has devices, with failure_events 0 and failure_rate_percent 0 (the
\* empty list when no device is stored); both answer without an error.
NoEventsNoError ==
    security_events = {} =>
        /\ response.op = "get_security_event_stats" =>
              response.status = 200 /\ Body = <<>>
        /\ response.op = "get_device_failure_rate" =>
              /\ response.status = 200
              /\ \A d \in devices :
                    Cardinality({i \in DOMAIN Body : Body[i].device_type = d.type}) = 1
              /\ \A i \in DOMAIN Body :
                    /\ \E d \in devices : d.type = Body[i].device_type
                    /\ Body[i].failure_events = 0
                    /\ Body[i].failure_rate_percent = 0

\* devices of two types and no security event
NoEventsNoErrorWitness ==
    /\ security_events = {}
    /\ response.op = "get_device_failure_rate"
    /\ Len(Body) = 2

\* the security events attached to the devices of one type
EventsOfType(type) ==
    {se \in security_events : \E d \in devices : d.id = se.device_id /\ d.type = type}

\* C21: every row of get_device_failure_rate carries the number of devices
\* of its type, the number of security events attached to them, and as
\* failure_rate_percent the multiple of 0.01 nearest to
\* 100 * failure_events / total_devices, which is above 100 whenever the
\* type has more events than devices; every type with devices has its row.
FailureRatePerDevice ==
    response.op = "get_device_failure_rate" =>
        /\ \A d \in devices :
              Cardinality({i \in DOMAIN Body : Body[i].device_type = d.type}) = 1
        /\ \A i \in DOMAIN Body :
              LET n == Cardinality({d \in devices : d.type = Body[i].device_type})
                  ev == Cardinality(EventsOfType(Body[i].device_type))
                  off == Body[i].failure_rate_percent * n - 10000 * ev
              IN  /\ Body[i].total_devices = n
                  /\ Body[i].failure_events = ev
                  /\ n > 0
                  /\ 2 * off <= n
                  /\ 0 - 2 * off <= n
                  /\ ev > n => Body[i].failure_rate_percent > 10000

\* a type with more events than devices next to a type with fewer
FailureRatePerDeviceWitness ==
    /\ response.op = "get_device_failure_rate"
    /\ \E i, k \in DOMAIN Body :
          /\ Body[i].failure_events > Body[i].total_devices
          /\ Body[i].failure_rate_percent > 10000
          /\ Body[k].failure_events > 0
          /\ Body[k].failure_events < Body[k].total_devices

\* the feedback rows whose rating lies in the bucket, as the claim words it
InBucket(sentiment) ==
    CASE sentiment = "Positive" -> {f \in feedback : f.rating >= 4}
      [] sentiment = "Neutral" -> {f \in feedback : f.rating = 3}
      [] sentiment = "Negative" -> {f \in feedback : f.rating <= 2}
      [] OTHER -> {}

\* C22: get_feedback_sentiment returns, for each of Positive (rating >= 4),
\* Neutral (rating = 3) and Negative (rating <= 2) that has feedback rows,
\* exactly one row whose count is the number of those rows, and no other
\* row; the counts add up to the number of feedback rows.
SentimentBuckets ==
    response.op = "get_feedback_sentiment" =>
        /\ \A b \in {"Positive", "Neutral", "Negative"} :
              IF InBucket(b) = {}
              THEN \A i \in DOMAIN Body : Body[i].sentiment # b
              ELSE /\ Cardinality({i \in DOMAIN Body : Body[i].sentiment = b}) = 1
                   /\ \A i \in DOMAIN Body :
                         Body[i].sentiment = b => Body[i].count = Cardinality(InBucket(b))
        /\ \A i \in DOMAIN Body : Body[i].sentiment \in {"Positive", "Neutral", "Negative"}
        /\ SumOver(DOMAIN Body, [i \in DOMAIN Body |-> Body[i].count]) = Cardinality(feedback)

\* feedback rows of ratings 4, 3 and 2 are stored and three rows are returned
SentimentBucketsWitness ==
    /\ response.op = "get_feedback_sentiment"
    /\ Len(Body) = 3
    /\ \A r \in {2, 3, 4} : \E f \in feedback : f.rating = r

\* C23: every stored feedback row has a rating in 1..5, and a
\* create_feedback step with a rating below 1 or above 5 is turned down at
\* the rating check (400) and leaves the feedback table as it was.
RatingsInRange ==
    /\ [](\A f \in feedback : f.rating \in 1..5)
    /\ [][\A user_id \in IdInputs, rating \in RatingInputs :
             (~(rating \in 1..5) /\ create_feedback(user_id, rating)) =>
                 /\ response'.status = 400
                 /\ feedback' = feedback]_vars

\* a rating out of range was turned down while feedback rows are stored
RatingsInRangeWitness ==
    /\ response.op = "create_feedback"
    /\ response.status = 400
    /\ feedback # {}

\* the analyses that read device_usage first
UsageAnalyses ==
    {"get_device_usage_frequency", "get_concurrent_devices", "get_area_usage_impact",
     "get_device_usage_pattern", "get_energy_consumption", "get_concurrent_device_usage"}

\* the table an analysis reads first is empty
BaseTableEmpty(op) ==
    \/ op \in UsageAnalyses /\ device_usage = {}
    \/ op = "get_security_event_stats" /\ security_events = {}
    \/ op = "get_feedback_sentiment" /\ feedback = {}
    \/ op = "get_user_activity" /\ users = {}
    \/ op = "get_device_failure_rate" /\ devices = {}

\* C24: an analysis whose base table is empty (device_usage for the usage
\* analyses, security_events for the event statistics, feedback for the
\* sentiment analysis) answers the empty list, without an error.
EmptyBaseEmptyResult ==
    BaseTableEmpty(response.op) => response.status = 200 /\ Body = <<>>

\* the sentiment analysis answered over users without feedback
EmptyBaseEmptyResultWitness ==
    /\ response.op = "get_feedback_sentiment"
    /\ feedback = {}
    /\ users # {}
    /\ Body = <<>>

\* a row with this id is in the table
Stored(table, id) == \E r \in table : r.id = id

\* the step answers "not found" and writes nothing
NotFoundNoWrite == response'.status = 404 /\ UNCHANGED tables

\* C25 as stated: a create_house step with an unknown user_id, a
\* create_device step with an unknown house_id, a create_device_usage or
\* create_security_event step with an unknown device_id and a
\* create_feedback step with an unknown user_id answer "not found" and
\* leave every table unchanged.
MissingParentNotFound ==
    [][/\ \A user_id \in IdInputs, area \in AreaInputs :
             (~Stored(users, user_id) /\ create_house(user_id, area)) => NotFoundNoWrite
       /\ \A house_id \in IdInputs, name \in NameInputs :
             (~Stored(houses, house_id) /\ create_device(house_id, name, "lighting"))
                 => NotFoundNoWrite
       /\ \A device_id \in IdInputs, start_time \in TimeInputs, end_time \in TimeInputs :
             (~Stored(devices, device_id) /\ create_device_usage(device_id, start_time, end_time))
                 => NotFoundNoWrite
       /\ \A device_id \in IdInputs :
             (~Stored(devices, device_id) /\ create_security_event(device_id, "motion_detected"))
                 => NotFoundNoWrite
       /\ \A user_id \in IdInputs, rating \in RatingInputs :
             (~Stored(users, user_id) /\ create_feedback(user_id, rating)) => NotFoundNoWrite]_vars

\* C25 as amended: the same, for create_device_usage when end_time is after
\* start_time and for create_feedback when the rating is in 1..5; when these
\* fields are not valid the step answers 400, and in both cases every table
\* is left unchanged.
MissingParentNotFoundIfValid ==
    [][/\ \A user_id \in IdInputs, area \in AreaInputs :
             (~Stored(users, user_id) /\ create_house(user_id, area)) => NotFoundNoWrite
       /\ \A house_id \in IdInputs, name \in NameInputs :
             (~Stored(houses, house_id) /\ create_device(house_id, name, "lighting"))
                 => NotFoundNoWrite
       /\ \A device_id \in IdInputs, start_time \in TimeInputs, end_time \in TimeInputs :
             (~Stored(devices, device_id) /\ create_device_usage(device_id, start_time, end_time))
                 => IF end_time > start_time
                    THEN NotFoundNoWrite
                    ELSE response'.status = 400 /\ UNCHANGED tables
       /\ \A device_id \in IdInputs :
             (~Stored(devices, device_id) /\ create_security_event(device_id, "motion_detected"))
                 => NotFoundNoWrite
       /\ \A user_id \in IdInputs, rating \in RatingInputs :
             (~Stored(users, user_id) /\ create_feedback(user_id, rating))
                 => IF rating \in 1..5
                    THEN NotFoundNoWrite
                    ELSE response'.status = 400 /\ UNCHANGED tables]_vars

\* create_device named a house that is not stored while other houses are
MissingParentNotFoundWitness ==
    /\ response.op = "create_device"
    /\ response.status = 404
    /\ houses # {}

\* the analyses that end with LIMIT
LimitedAnalyses == {"get_concurrent_devices", "get_concurrent_device_usage"}

AnalysisOps ==
    UsageAnalyses \cup
        {"get_security_event_stats", "get_feedback_sentiment", "get_user_activity",
         "get_device_failure_rate"}

\* two answers of one analysis hold the same rows; SQL leaves the order of
\* rows with equal sort keys open, and with it which of them a LIMIT keeps,
\* so answers of the analyses with LIMIT are compared by their counts
SameRows(op, b1, b2) ==
    /\ Len(b1) = Len(b2)
    /\ IF op \in LimitedAnalyses
       THEN \A i \in DOMAIN b1 : b1[i].concurrent_count = b2[i].concurrent_count
       ELSE Range(b1) = Range(b2)

StatsOn(events) ==
    {[event_type |-> t,
      count |-> Cardinality({e \in events : e.event_type = t}),
      percentage |->
          (20000 * Cardinality({e \in events : e.event_type = t}) + Cardinality(events))
              \div (2 * Cardinality(events))] :
        t \in {e.event_type : e \in events}}

RowPerDevicePair ==
    response.op = "get_concurrent_device_usage" =>
        \A i \in DOMAIN Body :
            /\ Body[i].device1 # Body[i].device2
            /\ \E d1, d2 \in devices :
                  /\ d1.id < d2.id
                  /\ d1.name = Body[i].device1
                  /\ d2.name = Body[i].device2
                  /\ Body[i].concurrent_count = PairCount(d1.id, d2.id)

\* C29: create_user called with the email of a stored user answers 400
\* 'Email already exists' and inserts no row, and no two stored users ever
\* have the same email.
DuplicateEmailRejected ==
    /\ [](\A u, v \in users : u.email = v.email => u = v)
    /\ [][\A email \in EmailInputs :
             (create_user(email) /\ \E u \in users : u.email = email) =>
                 /\ response'.status = 400
                 /\ response'.detail = "Email already exists"
                 /\ users' = users]_vars

\* the rows of an answer of get_device_usage_frequency that belong to a device
FrequencyRowsOf(device_id) == {i \in DOMAIN Body : Body[i].device_id = device_id}

\* C30: get_device_usage_frequency counts every usage interval in exactly
\* one (device, time_slot) row: no two rows share device and time slot, for
\* each device the frequencies of its rows add up to the number of its usage
\* intervals, and all frequencies add up to the number of usage intervals.
FrequencyCountsEveryInterval ==
    response.op = "get_device_usage_frequency" =>
        /\ \A i, k \in DOMAIN Body :
              (Body[i].device_id = Body[k].device_id /\ Body[i].time_slot = Body[k].time_slot)
                  => i = k
        /\ \A d \in devices :
              SumOver(FrequencyRowsOf(d.id), [i \in FrequencyRowsOf(d.id) |-> Body[i].frequency])
                  = Cardinality({du \in device_usage : du.device_id = d.id})
        /\ SumOver(DOMAIN Body, [i \in DOMAIN Body |-> Body[i].frequency])
              = Cardinality(device_usage)

\* a device counted in two time slots, one of them holding two intervals
FrequencyCountsEveryIntervalWitness ==
    /\ response.op = "get_device_usage_frequency"
    /\ \E i, k \in DOMAIN Body :
          /\ Body[i].device_id = Body[k].device_id
          /\ Body[i].time_slot # Body[k].time_slot
          /\ Body[i].frequency = 2

====
